---- MODULE Spec2Model ----
(***************************************************************************)
(* The dispatch loop of the EVM interpreter (crates/revm/src/interpreter.rs)*)
(* with its peephole pass Interpreter::analyse and the inspector hooks that *)
(* Interpreter::run calls around every opcode.                              *)
(*                                                                         *)
(* Offsets are 0-based as in the source; a buffer is a TLA+ sequence, so    *)
(* the byte at offset k of buffer b is b[k + 1] (operator At).              *)
(* The stack is a sequence whose last element is the top.                   *)
(***************************************************************************)
EXTENDS Integers, Sequences, FiniteSets, TLC

(***************************************************************************)
(* Bounds of the exploration.                                               *)
(***************************************************************************)
MaxLen == 3
MaxGas == 26
MaxRuns == 2
MaxWords == 2
MaxHookGas == 2
MaxOut == 1

(***************************************************************************)
(* Program constants.                                                       *)
(***************************************************************************)
STACK_LIMIT == 1024
USE_GAS == TRUE
Padding == 33
\* bytes of a memory word, and usize::MAX in the integers of the checker
WordBytes == 32
USIZE_MAX == 2147483647

\* opcode bytes
STOP == 0
ADD == 1
JUMP == 86
JUMPI == 87
JUMPDEST == 91
PUSH1 == 96
PUSH2 == 97
PUSH2_JUMPI == 176
\* a byte that is no opcode
UNDEFINED == 12

\* the Return kinds the model distinguishes
Continue == "Continue"
Stop == "Stop"
Revert == "Revert"
OutOfGas == "OutOfGas"
StackUnderflow == "StackUnderflow"
StackOverflow == "StackOverflow"
InvalidJump == "InvalidJump"
InvalidOpcode == "InvalidOpcode"
FatalExternalError == "FatalExternalError"

Return ==
    {Continue, Stop, Revert, OutOfGas, StackUnderflow, StackOverflow,
     InvalidJump, InvalidOpcode, FatalExternalError}

(***************************************************************************)
(* Bytecode container: buffer access, padding, jumpdest bitmap, gas blocks. *)
(***************************************************************************)
At(b, k) == b[k + 1]

\* the raw bytes followed by Padding implicit STOPs
Pad(p) == p \o [k \in 1..Padding |-> STOP]

\* number of immediate bytes that follow opcode op
ImmLen(op) == IF op = PUSH1 THEN 1 ELSE IF op = PUSH2 THEN 2 ELSE 0

\* decoding the offsets lo..hi-1 of b, entered at offset e: the offsets at
\* which an instruction starts and the offset at which decoding leaves the
\* range; the range is halved so that long programs decode in shallow depth
RECURSIVE Decode(_, _, _, _)
Decode(b, lo, hi, e) ==
    IF e >= hi THEN [starts |-> {}, exit |-> e]
    ELSE IF hi - lo = 1
    THEN [starts |-> {e}, exit |-> e + 1 + ImmLen(At(b, e))]
    ELSE LET mid == (lo + hi) \div 2
             l == Decode(b, lo, mid, e)
             r == Decode(b, mid, hi, l.exit)
         IN  [starts |-> l.starts \cup r.starts, exit |-> r.exit]

\* offsets at which an instruction starts when b is decoded from offset 0
InstrStarts(b) == Decode(b, 0, Len(b), 0).starts

\* jumpdest bitmap: one flag per offset, set for JUMPDEST opcodes only
JumpTable(b) ==
    LET starts == InstrStarts(b)
    IN  [k \in 1..Len(b) |-> (k - 1) \in starts /\ b[k] = JUMPDEST]

\* static gas of one opcode
OpGas(op) ==
    CASE op = ADD -> 3
      [] op = PUSH1 -> 3
      [] op = PUSH2 -> 3
      [] op = JUMP -> 8
      [] op = JUMPI -> 10
      [] op = JUMPDEST -> 1
      [] op = PUSH2_JUMPI -> 13
      [] OTHER -> 0

\* opcodes that end a basic block
IsBlockEnd(op) ==
    op \notin {ADD, PUSH1, PUSH2, JUMPDEST}

\* cumulative static gas from offset k up to and including the block's end
RECURSIVE GasBlockFrom(_, _)
GasBlockFrom(b, k) ==
    IF k >= Len(b) THEN 0
    ELSE LET op == At(b, k)
         IN  IF IsBlockEnd(op) THEN OpGas(op)
             ELSE OpGas(op) + GasBlockFrom(b, k + 1 + ImmLen(op))

GasBlocks(b) == [k \in 1..Len(b) |-> GasBlockFrom(b, k - 1)]

(***************************************************************************)
(* Inputs.                                                                  *)
(***************************************************************************)
Alphabet == {STOP, ADD, JUMP, JUMPI, JUMPDEST, PUSH1, PUSH2}

SeqsUpTo(S, n) == UNION {[1..k -> S] : k \in 0..n}

SmallPrograms == SeqsUpTo(Alphabet, MaxLen)

Targets == {0, 1}

\* programs that contain the byte pattern PUSH2 hi lo JUMPI
FusionPrograms ==
    {a \o <<PUSH2, 0, t, JUMPI>> \o z :
        a \in SeqsUpTo(Alphabet, MaxLen - 1), t \in Targets,
        z \in SeqsUpTo(Alphabet, 1)}

\* the end-to-end scenarios: 60ff, 5b600056, 6001600201, and a counted loop
\* closed by PUSH2 0000 JUMPI
Prog60ff == <<PUSH1, 255>>
ProgLoop == <<JUMPDEST, PUSH1, 0, JUMP>>
ProgAdd == <<PUSH1, 1, PUSH1, 2, ADD>>
ProgFusedLoop == <<JUMPDEST, PUSH1, 1, PUSH2, 0, 0, JUMPI>>

Scenarios == {Prog60ff, ProgLoop, ProgAdd, ProgFusedLoop}

\* a program that reaches a byte that is no opcode
ProgUndefined == <<JUMPDEST, UNDEFINED>>

\* a contract of 22273 bytes in which the pattern PUSH2 57 00 JUMPI at offset 2
\* lies inside the pattern PUSH2 00 61 JUMPI at offset 0: offset 2 names the
\* JUMPDEST at offset 0x5700, and once byte 2 reads PUSH2_JUMPI offset 0 names
\* the JUMPDEST at offset PUSH2_JUMPI
ProgNested ==
    [k \in 1..(JUMPI * 256 + 1) |->
        CASE k - 1 \in {0, 2} -> PUSH2
          [] k - 1 \in {3, 5} -> JUMPI
          [] k - 1 \in {PUSH2_JUMPI, JUMPI * 256} -> JUMPDEST
          [] OTHER -> STOP]

GasLimits == {0, 2, 13, MaxGas}

\* "none": H::INSPECT is false; "continue": an inspector whose hooks always
\* return Continue; "any": an inspector whose hooks return any Return;
\* "tracer": CustomPrintTracer
InspectModes == {"none", "continue", "any", "tracer"}

\* the gas limits and inspectors each program is run with
Limits(p) ==
    IF p \in Scenarios THEN 0..MaxGas
    ELSE IF p = ProgNested THEN {0}
    ELSE GasLimits

\* the tracer is attached to the scenarios, to the program with the undefined
\* byte and to every program shorter than MaxLen
Modes(p) ==
    IF p = ProgNested THEN {"none"}
    ELSE IF p \in Scenarios \cup {ProgUndefined} \/ Len(p) < MaxLen
    THEN InspectModes
    ELSE InspectModes \ {"tracer"}

\* opcode::OPCODE_JUMPMAP: the name of an opcode, None for a byte that is none
None == "None"
OPCODE_JUMPMAP(opcode) ==
    CASE opcode = STOP -> "STOP"
      [] opcode = ADD -> "ADD"
      [] opcode = JUMP -> "JUMP"
      [] opcode = JUMPI -> "JUMPI"
      [] opcode = JUMPDEST -> "JUMPDEST"
      [] opcode = PUSH1 -> "PUSH1"
      [] opcode = PUSH2 -> "PUSH2"
      [] opcode = PUSH2_JUMPI -> "PUSH2_JUMPI"
      [] OTHER -> None

\* CustomPrintTracer::initialize_interp, step and step_end, given what the
\* chained gas inspector answered: the answer is dropped
initialize_interp(inner) == Continue
step(inner) == Continue
step_end(inner, eval_ret) == Continue

\* what the hooks step and step_end of an inspector may return
HookReturns(mode) ==
    CASE mode = "any" -> {Continue, Revert, FatalExternalError}
      [] mode = "tracer" ->
            {step(inner) : inner \in Return}
                \cup {step_end(inner, r) : inner \in Return, r \in Return}
      [] OTHER -> {Continue}

VARIABLES
    bytecode,     \* contract.bytecode: the padded buffer, rewritten by analyse
    raw,          \* the padded buffer as it was when the frame was built
    orig_len,     \* length of the program before padding
    jumptable,    \* the jumpdest bitmap of the bytecode's analysis
    gas_blocks,   \* the gas-block table of the bytecode's analysis
    ip,           \* instruction_pointer, as an offset into the buffer
    stack,        \* stack
    gas,          \* gas.remaining
    gas_limit,    \* gas.limit, the argument of Interpreter::new
    inspect,      \* which inspector the host carries
    phase,        \* position inside run
    ret,          \* run's local variable ret
    result,       \* the value run returned
    hook_ret,     \* the value the last hook call returned
    runs,         \* calls of run on this frame
    steps,        \* calls of host.step during this run
    step_ends,    \* calls of host.step_end during this run
    dispatched,   \* opcodes handed to eval during this run
    memory,       \* memory, as a sequence of bytes
    return_range, \* return_range: start and end offset into memory
    output,       \* what the last call of return_value returned
    hook_in,      \* the arguments of a sub-call hook of the tracer
    hook_out,     \* what that hook returned
    forwarded     \* what the tracer passed to the gas inspector's end hooks

vars ==
    <<bytecode, raw, orig_len, jumptable, gas_blocks, ip, stack, gas,
      gas_limit, inspect, phase, ret, result, hook_ret, runs, steps,
      step_ends, dispatched, memory, return_range, output, hook_in, hook_out,
      forwarded>>

\* what run never assigns: the frame's inputs and analysis, and what only
\* return_value, the handlers of memory opcodes (none is modelled) and the
\* tracer's sub-call hooks touch
fixed ==
    <<raw, orig_len, gas_limit, jumptable, gas_blocks, inspect, memory,
      return_range, output, hook_in, hook_out, forwarded>>

(***************************************************************************)
(* Gas meter and contract lookups.                                          *)
(***************************************************************************)
\* Gas::record_cost: all or nothing
record_cost(remaining, cost) ==
    IF cost > remaining THEN [ok |-> FALSE, remaining |-> remaining]
    ELSE [ok |-> TRUE, remaining |-> remaining - cost]

\* Contract::is_valid_jump
is_valid_jump(jt, target) == target < Len(jt) /\ At(jt, target)

\* Contract::gas_block and Contract::first_gas_block
gas_block(gb, pc) == IF pc < Len(gb) THEN At(gb, pc) ELSE 0
first_gas_block(gb) == gas_block(gb, 0)

\* add_next_gas_block as it would be if the block's cost were never recorded
add_next_gas_block_uncharged(s, gb, pc) == [s EXCEPT !.ret = Continue]

\* add_next_gas_block as it would be if a failed charge emptied the meter
add_next_gas_block_drains(s, gb, pc) ==
    LET r == record_cost(s.gas, gas_block(gb, pc))
    IN  IF ~r.ok THEN [s EXCEPT !.ret = OutOfGas, !.gas = 0]
        ELSE [s EXCEPT !.ret = Continue, !.gas = r.remaining]

\* add_next_gas_block as it would be if a block costing exactly what remains
\* were refused
add_next_gas_block_strict(s, gb, pc) ==
    IF gas_block(gb, pc) >= s.gas THEN [s EXCEPT !.ret = OutOfGas]
    ELSE [s EXCEPT !.ret = Continue, !.gas = @ - gas_block(gb, pc)]

\* Interpreter::add_next_gas_block, on an interpreter record s
add_next_gas_block(s, gb, pc) ==
    IF USE_GAS
    THEN LET r == record_cost(s.gas, gas_block(gb, pc))
         IN  IF ~r.ok THEN [s EXCEPT !.ret = OutOfGas]
             ELSE [s EXCEPT !.ret = Continue, !.gas = r.remaining]
    ELSE [s EXCEPT !.ret = Continue]

(***************************************************************************)
(* Instruction handlers, on an interpreter record s = [ip, stack, gas, ret] *)
(* whose ip has already been advanced past the opcode byte.  b is the       *)
(* buffer, jt the jumpdest bitmap, gb the gas-block table.                  *)
(***************************************************************************)
\* a byte of the buffer; offsets past the buffer read as STOP
Byte(b, k) == IF k < Len(b) THEN At(b, k) ELSE STOP

Top(st) == st[Len(st)]
Pop(st, n) == SubSeq(st, 1, Len(st) - n)

\* PUSHn: push the n immediate bytes as one big-endian word, skip them
push(n, s, b) ==
    IF Len(s.stack) + 1 > STACK_LIMIT THEN [s EXCEPT !.ret = StackOverflow]
    ELSE LET word == IF n = 1 THEN Byte(b, s.ip)
                     ELSE Byte(b, s.ip) * 256 + Byte(b, s.ip + 1)
         IN  [s EXCEPT !.ret = Continue,
                       !.stack = Append(@, word),
                       !.ip = @ + n]

add(s) ==
    IF Len(s.stack) < 2 THEN [s EXCEPT !.ret = StackUnderflow]
    ELSE [s EXCEPT !.ret = Continue,
                   !.stack = Append(Pop(@, 2), @[Len(@)] + @[Len(@) - 1])]

\* the taken branch of JUMP and JUMPI, the destination already popped
jump_to(s, jt, gb, dest) ==
    IF is_valid_jump(jt, dest)
    THEN add_next_gas_block([s EXCEPT !.ip = dest], gb, dest)
    ELSE [s EXCEPT !.ret = InvalidJump]

jump(s, jt, gb) ==
    IF Len(s.stack) < 1 THEN [s EXCEPT !.ret = StackUnderflow]
    ELSE jump_to([s EXCEPT !.stack = Pop(@, 1)], jt, gb, Top(s.stack))

jumpi(s, jt, gb) ==
    IF Len(s.stack) < 2 THEN [s EXCEPT !.ret = StackUnderflow]
    ELSE LET dest == Top(s.stack)
             value == s.stack[Len(s.stack) - 1]
             t == [s EXCEPT !.stack = Pop(@, 2)]
         IN  IF value # 0 THEN jump_to(t, jt, gb, dest)
             ELSE add_next_gas_block(t, gb, t.ip)

\* the fused opcode: PUSH2 followed by the JUMPI three bytes further
push2_jumpi(s, b, jt, gb) ==
    LET t == push(2, s, b)
    IN  IF t.ret # Continue THEN t
        ELSE jumpi([t EXCEPT !.ip = @ + 1], jt, gb)

\* instructions::eval
eval(opcode, s, b, jt, gb) ==
    CASE opcode = STOP -> [s EXCEPT !.ret = Stop]
      [] opcode = ADD -> add(s)
      [] opcode = JUMP -> jump(s, jt, gb)
      [] opcode = JUMPI -> jumpi(s, jt, gb)
      [] opcode = JUMPDEST -> [s EXCEPT !.ret = Continue]
      [] opcode = PUSH1 -> push(1, s, b)
      [] opcode = PUSH2 -> push(2, s, b)
      [] opcode = PUSH2_JUMPI -> push2_jumpi(s, b, jt, gb)
      [] OTHER -> [s EXCEPT !.ret = InvalidOpcode]

(***************************************************************************)
(* Interpreter::analyse: the peephole pass.                                 *)
(***************************************************************************)
\* the loop body as it would be without the is_valid_jump test
analyse_at_unchecked(b, jt, i) ==
    IF At(b, i) = PUSH2 /\ At(b, i + 3) = JUMPI
    THEN [b EXCEPT ![i + 1] = PUSH2_JUMPI]
    ELSE b

\* one iteration of the loop body at index i
analyse_at(b, jt, i) ==
    LET opcode == At(b, i)
        target0 == At(b, i + 1)
        target1 == At(b, i + 2)
        target == target0 * 256 + target1
        next == At(b, i + 3)
    IN  IF opcode = PUSH2 /\ next = JUMPI /\ is_valid_jump(jt, target)
        THEN [b EXCEPT ![i + 1] = PUSH2_JUMPI]
        ELSE b

\* the iterations i = lo, ..., hi - 1 of the loop, in order; the range is
\* halved so that long programs are analysed in shallow depth, and the
\* length test (always true) makes the first half complete before the second
RECURSIVE analyse_range(_, _, _, _)
analyse_range(b, jt, lo, hi) ==
    IF lo >= hi THEN b
    ELSE IF hi - lo = 1 THEN analyse_at(b, jt, lo)
    ELSE LET mid == (lo + hi) \div 2
             first == analyse_range(b, jt, lo, mid)
         IN  IF Len(first) = Len(b) THEN analyse_range(first, jt, mid, hi)
             ELSE first

\* the loop bound as it would be if the loop ran over every offset
analyse_bound_len(b) == Len(b)

\* the loop bound len - 4, a usize: below 4 the subtraction wraps round
analyse_bound(b) ==
    IF Len(b) >= 4 THEN Len(b) - 4 ELSE USIZE_MAX - (3 - Len(b))

\* for i in 0..len - 4
analyse(b, jt) == analyse_range(b, jt, 0, analyse_bound(b))

\* Interpreter::program_counter and Interpreter::current_opcode
program_counter == ip
current_opcode == At(bytecode, ip)

(***************************************************************************)
(* Interpreter::new and Interpreter::run.                                   *)
(***************************************************************************)
NoResult == "NoResult"

Programs ==
    SmallPrograms \cup FusionPrograms \cup Scenarios \cup {ProgUndefined}

\* Range::default(), and the values of the fields no run has touched
DefaultRange == [start |-> 0, end |-> 0]
NoOutput == [called |-> FALSE, bytes |-> <<>>]
NoHook == [kind |-> "none"]

\* Interpreter::new for one of the programs, at the point where run is called
Init ==
    /\ \E p \in Programs \cup {ProgNested} :
        /\ bytecode = Pad(p)
        /\ raw = Pad(p)
        /\ orig_len = Len(p)
        /\ jumptable = JumpTable(Pad(p))
        /\ gas_blocks = GasBlocks(Pad(p))
        /\ gas_limit \in Limits(p)
        /\ inspect \in Modes(p)
    /\ gas = gas_limit
    /\ ip = 0
    /\ stack = <<>>
    /\ phase = "start"
    /\ ret = Continue
    /\ result = NoResult
    /\ hook_ret = Continue
    /\ runs = 1
    /\ steps = 0
    /\ step_ends = 0
    /\ dispatched = 0
    /\ memory = <<>>
    /\ return_range = DefaultRange
    /\ output = NoOutput
    /\ hook_in = NoHook
    /\ hook_out = NoHook
    /\ forwarded = <<>>

\* line 143: self.analyse()
Analyse ==
    /\ phase = "start"
    /\ bytecode' = analyse(bytecode, jumptable)
    /\ phase' = "first_gas"
    /\ UNCHANGED <<fixed, ip, stack, gas, ret, result, hook_ret, runs, steps,
                   step_ends,
                   dispatched>>

\* the first charge as it would be if a failed record_cost emptied the meter
FirstGas_Drained ==
    /\ phase = "first_gas"
    /\ ret' = Continue
    /\ LET r == record_cost(gas, first_gas_block(gas_blocks))
       IN  IF USE_GAS /\ ~r.ok
           THEN /\ result' = OutOfGas
                /\ phase' = "done"
                /\ gas' = 0
           ELSE /\ result' = result
                /\ phase' = "loop"
                /\ gas' = IF USE_GAS THEN r.remaining ELSE gas
    /\ UNCHANGED <<fixed, bytecode, ip, stack, hook_ret, runs, steps,
                   step_ends, dispatched>>

\* the entry of the loop as it would be if the first block were not charged
FirstGas_Free ==
    /\ phase = "first_gas"
    /\ ret' = Continue
    /\ phase' = "loop"
    /\ UNCHANGED <<fixed, bytecode, ip, stack, gas, result, hook_ret, runs,
                   steps, step_ends, dispatched>>

\* lines 146-150: ret = Continue, then the first gas block
FirstGas ==
    /\ phase = "first_gas"
    /\ ret' = Continue
    /\ LET r == record_cost(gas, first_gas_block(gas_blocks))
       IN  IF USE_GAS /\ ~r.ok
           THEN /\ result' = OutOfGas
                /\ phase' = "done"
                /\ gas' = gas
           ELSE /\ result' = result
                /\ phase' = "loop"
                /\ gas' = IF USE_GAS THEN r.remaining ELSE gas
    /\ UNCHANGED <<fixed, bytecode, ip, stack, hook_ret, runs, steps,
                   step_ends, dispatched>>

\* lines 151 and 187: the loop condition fails and run returns ret
LoopExit ==
    /\ phase = "loop"
    /\ ret # Continue
    /\ result' = ret
    /\ phase' = "done"
    /\ UNCHANGED <<fixed, bytecode, ip, stack, gas, ret, hook_ret, runs,
                   steps, step_ends,
                   dispatched>>

\* the opcode at the instruction pointer; a pointer that left the buffer
\* reads whatever memory holds
Fetched == IF ip < Len(bytecode) THEN {At(bytecode, ip)} ELSE 0..255

\* the step hook as it would be if its return value were dropped
StepHook_Ignored ==
    /\ phase = "loop"
    /\ ret = Continue
    /\ inspect # "none"
    /\ \E r \in HookReturns(inspect) : hook_ret' = r
    /\ phase' = "fetch"
    /\ steps' = steps + 1
    /\ UNCHANGED <<fixed, bytecode, ip, stack, gas, ret, result, runs,
                   step_ends, dispatched>>

\* lines 153-158: host.step.  CustomPrintTracer::step unwraps the name of
\* current_opcode() (trace.rs line 53) and panics when there is none: run
\* then never returns
StepHook ==
    /\ phase = "loop"
    /\ ret = Continue
    /\ inspect # "none"
    /\ \E opcode \in Fetched :
        IF inspect = "tracer" /\ OPCODE_JUMPMAP(opcode) = None
        THEN /\ phase' = "panic"
             /\ UNCHANGED <<hook_ret, result>>
        ELSE \E r \in HookReturns(inspect) :
                /\ hook_ret' = r
                /\ IF r # Continue
                   THEN result' = r /\ phase' = "done"
                   ELSE result' = result /\ phase' = "fetch"
    /\ steps' = steps + 1
    /\ UNCHANGED <<fixed, bytecode, ip, stack, gas, ret, runs, step_ends,
                   dispatched>>

\* the dispatch as it would be without the pointer's advance of line 177
Dispatch_NoAdvance ==
    /\ \/ phase = "fetch"
       \/ phase = "loop" /\ ret = Continue /\ inspect = "none"
    /\ \E opcode \in Fetched :
        LET s == eval(opcode,
                      [ip |-> ip, stack |-> stack, gas |-> gas, ret |-> ret],
                      bytecode, jumptable, gas_blocks)
        IN  /\ ip' = s.ip
            /\ stack' = s.stack
            /\ gas' = s.gas
            /\ ret' = s.ret
    /\ dispatched' = dispatched + 1
    /\ phase' = IF inspect # "none" THEN "step_end" ELSE "loop"
    /\ UNCHANGED <<fixed, bytecode, result, hook_ret, runs, steps, step_ends>>

\* the dispatch as it would be if step_end were skipped for the opcode whose
\* handler returns a terminal kind
Dispatch_HaltSkipsStepEnd ==
    /\ \/ phase = "fetch"
       \/ phase = "loop" /\ ret = Continue /\ inspect = "none"
    /\ \E opcode \in Fetched :
        LET s == eval(opcode,
                      [ip |-> ip + 1, stack |-> stack, gas |-> gas,
                       ret |-> ret],
                      bytecode, jumptable, gas_blocks)
        IN  /\ ip' = s.ip
            /\ stack' = s.stack
            /\ gas' = s.gas
            /\ ret' = s.ret
            /\ phase' = IF inspect # "none" /\ s.ret = Continue
                        THEN "step_end" ELSE "loop"
    /\ dispatched' = dispatched + 1
    /\ UNCHANGED <<fixed, bytecode, result, hook_ret, runs, steps, step_ends>>

\* the dispatch as it would be if the pointer were advanced before the fetch
Dispatch_FetchAfterAdvance ==
    /\ \/ phase = "fetch"
       \/ phase = "loop" /\ ret = Continue /\ inspect = "none"
    /\ LET s == eval(Byte(bytecode, ip + 1),
                     [ip |-> ip + 1, stack |-> stack, gas |-> gas,
                      ret |-> ret],
                     bytecode, jumptable, gas_blocks)
       IN  /\ ip' = s.ip
           /\ stack' = s.stack
           /\ gas' = s.gas
           /\ ret' = s.ret
    /\ dispatched' = dispatched + 1
    /\ phase' = IF inspect # "none" THEN "step_end" ELSE "loop"
    /\ UNCHANGED <<fixed, bytecode, result, hook_ret, runs, steps, step_ends>>

\* lines 159-178: fetch, advance, eval
Dispatch ==
    /\ \/ phase = "fetch"
       \/ phase = "loop" /\ ret = Continue /\ inspect = "none"
    /\ \E opcode \in Fetched :
        LET s == eval(opcode,
                      [ip |-> ip + 1, stack |-> stack, gas |-> gas,
                       ret |-> ret],
                      bytecode, jumptable, gas_blocks)
        IN  /\ ip' = s.ip
            /\ stack' = s.stack
            /\ gas' = s.gas
            /\ ret' = s.ret
    /\ dispatched' = dispatched + 1
    /\ phase' = IF inspect # "none" THEN "step_end" ELSE "loop"
    /\ UNCHANGED <<fixed, bytecode, result, hook_ret, runs, steps, step_ends>>

\* step_end as it would be if run returned whatever the hook answered
StepEnd_ReturnsAnswer ==
    /\ phase = "step_end"
    /\ \E r \in HookReturns(inspect) :
        /\ hook_ret' = r
        /\ result' = r
    /\ phase' = "done"
    /\ step_ends' = step_ends + 1
    /\ UNCHANGED <<fixed, bytecode, ip, stack, gas, ret, runs, steps,
                   dispatched>>

\* step_end as it would be if its answer were assigned to the loop's ret
StepEnd_AssignsRet ==
    /\ phase = "step_end"
    /\ \E r \in HookReturns(inspect) :
        /\ hook_ret' = r
        /\ ret' = r
    /\ phase' = "loop"
    /\ step_ends' = step_ends + 1
    /\ UNCHANGED <<fixed, bytecode, ip, stack, gas, result, runs, steps,
                   dispatched>>

\* lines 180-185: host.step_end
StepEnd ==
    /\ phase = "step_end"
    /\ \E r \in HookReturns(inspect) :
        /\ hook_ret' = r
        /\ IF r # Continue
           THEN result' = r /\ phase' = "done"
           ELSE result' = result /\ phase' = "loop"
    /\ step_ends' = step_ends + 1
    /\ UNCHANGED <<fixed, bytecode, ip, stack, gas, ret, runs, steps,
                   dispatched>>

\* the caller invokes run once more on the same interpreter
RunAgain ==
    /\ phase = "done"
    /\ runs < MaxRuns
    /\ runs' = runs + 1
    /\ phase' = "start"
    /\ ret' = Continue
    /\ result' = NoResult
    /\ hook_ret' = Continue
    /\ steps' = 0
    /\ step_ends' = 0
    /\ dispatched' = 0
    /\ UNCHANGED <<fixed, bytecode, ip, stack, gas>>

Next ==
    \/ Analyse
    \/ FirstGas
    \/ LoopExit
    \/ StepHook
    \/ Dispatch
    \/ StepEnd
    \/ RunAgain

Spec == Init /\ [][Next]_vars

TypeOK ==
    /\ phase \in {"start", "first_gas", "loop", "fetch", "step_end", "done",
                 "panic"}
    /\ ret \in Return
    /\ result \in Return \cup {NoResult}
    /\ gas \in 0..MaxGas
    /\ ip \in Nat

\* run with line 143 left out and H::INSPECT false: the loop of lines 151-187
\* on an interpreter record s
RECURSIVE run_loop(_, _, _, _)
run_loop(s, b, jt, gb) ==
    IF s.ret # Continue THEN s
    ELSE run_loop(eval(Byte(b, s.ip), [s EXCEPT !.ip = @ + 1], b, jt, gb),
                  b, jt, gb)

\* lines 146-188 on a fresh interpreter whose bytecode is b
run_unanalysed(b, jt, gb, limit) ==
    LET r == record_cost(limit, first_gas_block(gb))
        s == [ip |-> 0, stack |-> <<>>, gas |-> limit, ret |-> Continue]
    IN  IF USE_GAS /\ ~r.ok THEN [s EXCEPT !.ret = OutOfGas]
        ELSE run_loop([s EXCEPT !.gas = IF USE_GAS THEN r.remaining ELSE @],
                      b, jt, gb)

(***************************************************************************)
(* Interpreter::return_value, applied to the frames a run can leave behind.  *)
(***************************************************************************)
\* Memory::get_slice
get_slice(mem, offset, size) == SubSeq(mem, offset + 1, offset + size)

\* return_value as it would be if the slice were taken from offset 0
return_value_from_zero(mem, range) ==
    IF range.start = USIZE_MAX THEN <<>>
    ELSE get_slice(mem, 0, range.end - range.start)

\* lines 190-201
return_value(mem, range) ==
    IF range.start = USIZE_MAX THEN <<>>
    ELSE get_slice(mem, range.start, range.end - range.start)

\* memories of whole words, each byte told apart from its neighbours
MemoryOf(words, seed) ==
    [k \in 1..(words * WordBytes) |-> (seed * k) % 256]

Memories == {MemoryOf(w, seed) : w \in 0..MaxWords, seed \in {1, 37}}

\* what return_range can hold over memory mem: the default, the marker of an
\* empty RETURN or REVERT, or a window RETURN or REVERT found inside memory
EmptyReturn == [start |-> USIZE_MAX, end |-> USIZE_MAX]

Ranges(mem) ==
    {DefaultRange, EmptyReturn}
        \cup UNION {{[start |-> a, end |-> a + n] : n \in 0..(Len(mem) - a)} :
                        a \in 0..Len(mem)}

\* the frame of the empty program after run has returned Stop
Returned ==
    /\ bytecode = Pad(<<>>)
    /\ raw = Pad(<<>>)
    /\ orig_len = 0
    /\ jumptable = JumpTable(Pad(<<>>))
    /\ gas_blocks = GasBlocks(Pad(<<>>))
    /\ gas_limit = 0
    /\ inspect = "none"
    /\ gas = 0
    /\ ip = 1
    /\ stack = <<>>
    /\ phase = "done"
    /\ ret = Stop
    /\ result = Stop
    /\ hook_ret = Continue
    /\ runs = 1
    /\ steps = 0
    /\ step_ends = 0
    /\ dispatched = 1

InitReturnValue ==
    /\ Returned
    /\ memory \in Memories
    /\ return_range \in Ranges(memory)
    /\ output = NoOutput
    /\ hook_in = NoHook
    /\ hook_out = NoHook
    /\ forwarded = <<>>

\* the caller reads the frame's output
ReturnValue ==
    /\ phase = "done"
    /\ ~output.called
    /\ output' = [called |-> TRUE,
                  bytes |-> return_value(memory, return_range)]
    /\ UNCHANGED <<bytecode, raw, orig_len, jumptable, gas_blocks, ip, stack,
                   gas, gas_limit, inspect, phase, ret, result, hook_ret,
                   runs, steps, step_ends, dispatched, memory, return_range,
                   hook_in, hook_out, forwarded>>

NextReturnValue == ReturnValue

SpecReturnValue == InitReturnValue /\ [][NextReturnValue]_vars

(***************************************************************************)
(* The sub-call hooks of CustomPrintTracer (statetest/trace.rs).  A result   *)
(* is the tuple the hook returns; inner is what the chained gas inspector    *)
(* answered.                                                                *)
(***************************************************************************)
\* Gas::new(limit), as the gas it holds, and Bytes::new()
Gas_new(limit) == limit
Bytes_new == <<>>

\* lines 105-120 and 122-136
call(inputs, is_static) == <<Continue, Gas_new(0), Bytes_new>>

create(inputs) == <<Continue, None, Gas_new(0), Bytes_new>>

\* call_end as it would be if it returned what the gas inspector answered
call_end_inner(inner, remaining_gas, ret_in, out) == inner

\* lines 77-89 and 91-103
call_end(inner, remaining_gas, ret_in, out) == <<ret_in, remaining_gas, out>>

create_end(inner, ret_in, address, remaining_gas, out) ==
    <<ret_in, address, remaining_gas, out>>

\* the outcomes of a sub-call or sub-create handed to the end hooks
Outs == SeqsUpTo({0, 255}, MaxOut)
Addresses == {None, "0xa1"}

EndInputs(kind) ==
    [kind : {kind}, is_static : BOOLEAN, ret : Return,
     gas : 0..MaxHookGas, out : Outs,
     address : IF kind = "create_end" THEN Addresses ELSE {None}]

\* the frame inputs handed to call and create
StartInputs(kind) ==
    [kind : {kind},
     is_static : IF kind = "call" THEN BOOLEAN ELSE {FALSE},
     ret : {Continue}, gas : {0}, out : {Bytes_new}, address : {None}]

\* what the gas inspector may answer to call_end and to create_end
InnerCallEnds == {<<r, g, Bytes_new>> : r \in {Continue, Revert}, g \in {0, 1}}
InnerCreateEnds ==
    {<<r, None, g, Bytes_new>> : r \in {Continue, Revert}, g \in {0, 1}}

InitTracer ==
    /\ Returned
    /\ memory = <<>>
    /\ return_range = DefaultRange
    /\ output = NoOutput
    /\ hook_in \in StartInputs("call") \cup StartInputs("create")
                    \cup EndInputs("call_end") \cup EndInputs("create_end")
    /\ hook_out = NoHook
    /\ forwarded = <<>>

\* what the tracer's hooks leave alone
untraced ==
    <<bytecode, raw, orig_len, jumptable, gas_blocks, ip, stack, gas,
      gas_limit, inspect, phase, ret, result, hook_ret, runs, steps,
      step_ends, dispatched, memory, return_range, output, hook_in>>

Call ==
    /\ hook_in.kind = "call"
    /\ hook_out = NoHook
    /\ hook_out' = [kind |-> "call",
                    val |-> call(hook_in, hook_in.is_static)]
    /\ UNCHANGED <<untraced, forwarded>>

Create ==
    /\ hook_in.kind = "create"
    /\ hook_out = NoHook
    /\ hook_out' = [kind |-> "create", val |-> create(hook_in)]
    /\ UNCHANGED <<untraced, forwarded>>

\* lines 86-88: the gas inspector is called once, its answer is dropped
CallEnd ==
    /\ hook_in.kind = "call_end"
    /\ hook_out = NoHook
    /\ forwarded' =
            Append(forwarded, <<hook_in.gas, hook_in.ret, hook_in.out>>)
    /\ \E inner \in InnerCallEnds :
        hook_out' = [kind |-> "call_end",
                     val |-> call_end(inner, hook_in.gas, hook_in.ret,
                                      hook_in.out)]
    /\ UNCHANGED untraced

\* lines 100-102
CreateEnd ==
    /\ hook_in.kind = "create_end"
    /\ hook_out = NoHook
    /\ forwarded' =
            Append(forwarded,
                   <<hook_in.ret, hook_in.address, hook_in.gas, hook_in.out>>)
    /\ \E inner \in InnerCreateEnds :
        hook_out' = [kind |-> "create_end",
                     val |-> create_end(inner, hook_in.ret, hook_in.address,
                                        hook_in.gas, hook_in.out)]
    /\ UNCHANGED untraced

NextTracer ==
    \/ Call
    \/ Create
    \/ CallEnd
    \/ CreateEnd

SpecTracer == InitTracer /\ [][NextTracer]_vars

(***************************************************************************)
(* Properties.                                                              *)
(***************************************************************************)
\* the steps of the behaviour that are one call of a hook or one dispatch
IsStepCall == steps' = steps + 1
IsStepEndCall == step_ends' = step_ends + 1
IsDispatch == dispatched' = dispatched + 1

\* C1: whenever run has returned, the value it returned is a Return kind
\* other than Continue, whatever the hooks step and step_end returned.
C1_NeverReturnsContinue ==
    phase = "done" => result \in Return \ {Continue}

\* C1 witness: run returned under an inspector whose step_end hook had
\* answered Continue at least twice before the run ended
C1_Witness ==
    /\ phase = "done"
    /\ inspect = "any"
    /\ step_ends >= 2
    /\ result \in Return

\* C2: run cannot loop for ever.  Every dispatch after which the loop goes
\* on either lowers gas.remaining or leaves it and moves the instruction
\* pointer forward; remaining never falls below 0 and the pointer of a first
\* run never passes the end of the buffer, so run reaches its return.  The
\* program 5b600056, which jumps back to its own JUMPDEST for ever, returns
\* OutOfGas when no hook ends the run.
C2_RunTerminates ==
    /\ [][(IsDispatch /\ ret' = Continue) =>
            \/ gas' < gas
            \/ gas' = gas /\ ip' > ip]_vars
    /\ [](gas >= 0 /\ (runs = 1 => ip <= Len(bytecode)))
    /\ []((phase = "done" /\ inspect # "any" /\ raw = Pad(ProgLoop)) =>
            result = OutOfGas)

\* C2 witness: 5b600056 has gone twice round its loop and run has returned
C2_Witness ==
    /\ phase = "done"
    /\ runs = 1
    /\ raw = Pad(ProgLoop)
    /\ inspect = "none"
    /\ dispatched = 6
    /\ result = OutOfGas

\* C3: a step hook that returns a non-Continue value r ends run with r at
\* once: no dispatch, no step_end, instruction pointer, stack, gas and
\* bytecode as they were.
C3_StepShortCircuits ==
    [][(IsStepCall /\ hook_ret' # Continue) =>
        /\ phase' = "done"
        /\ result' = hook_ret'
        /\ UNCHANGED <<ip, stack, gas, bytecode, dispatched, step_ends,
                       ret>>]_vars

\* C3 witness: run returned FatalExternalError from the third step hook, two
\* opcodes having been dispatched before
C3_Witness ==
    /\ phase = "done"
    /\ result = FatalExternalError
    /\ steps = 3
    /\ step_ends = 2
    /\ dispatched = 2

\* the status the loop goes on with after a step_end call
LoopStatus == IF phase = "done" THEN result ELSE ret

\* a step_end call has just returned
AfterStepEnd ==
    /\ inspect # "none"
    /\ dispatched >= 1
    /\ steps = dispatched
    /\ step_ends = dispatched
    /\ phase \in {"loop", "done"}

\* C4 as stated: after step_end returned r', the loop status is r'.
C4_StepEndOverrides ==
    AfterStepEnd => LoopStatus = hook_ret

\* C4 amended: a step_end call that returns a non-Continue r' makes run
\* return r'; one that returns Continue leaves the handler's result r as the
\* loop status, and the loop then returns r unless r is Continue.
C4_StepEndOverridesTerminalOnly ==
    [][/\ IsStepEndCall =>
            IF hook_ret' # Continue
            THEN phase' = "done" /\ result' = hook_ret'
            ELSE phase' = "loop" /\ ret' = ret /\ result' = result
       /\ (phase = "loop" /\ ret # Continue) =>
            phase' = "done" /\ result' = ret]_vars

\* C4 witness: the handler returned Stop, step_end answered Continue and run
\* returned Stop
C4_Witness ==
    /\ AfterStepEnd
    /\ phase = "done"
    /\ hook_ret = Continue
    /\ result = Stop

\* C5: the first basic block is charged before the loop: if its gas exceeds
\* gas.remaining run returns OutOfGas with remaining unchanged, nothing
\* dispatched, no hook called and (on the first run) the instruction pointer
\* at offset 0; otherwise remaining decreases by exactly that gas, and no
\* later step of the run charges before the first opcode is dispatched.
C5_FirstBlockCharged ==
    [][/\ phase = "first_gas" =>
            LET cost == GasBlockFrom(raw, 0)
            IN  IF cost > gas
                THEN /\ phase' = "done"
                     /\ result' = OutOfGas
                     /\ gas' = gas
                     /\ ip' = ip
                     /\ runs = 1 => ip' = 0
                     /\ dispatched' = 0 /\ steps' = 0 /\ step_ends' = 0
                ELSE /\ phase' = "loop"
                     /\ gas' = gas - cost
                     /\ UNCHANGED <<ip, stack, dispatched, steps, step_ends>>
       /\ (phase \in {"start", "loop", "fetch"} /\ ~IsDispatch) =>
            gas' = gas]_vars

\* C5 witness: the first run ended OutOfGas with gas left, nothing dispatched
C5_Witness ==
    /\ phase = "done"
    /\ runs = 1
    /\ result = OutOfGas
    /\ dispatched = 0
    /\ steps = 0
    /\ gas = gas_limit
    /\ gas > 0

\* C6: a first run, without an inspector that ends it, returns the same
\* Return and leaves the same stack and the same gas as the same program run
\* with no byte rewritten.
C6_FusionTransparent ==
    (phase = "done" /\ runs = 1 /\ inspect # "any") =>
        LET r == run_unanalysed(raw, jumptable, gas_blocks, gas_limit)
        IN  result = r.ret /\ stack = r.stack /\ gas = r.gas

\* C7: the analysis of a second run leaves every byte as the first analysis
\* produced it.
C7_AnalyseIdempotent ==
    [][(phase = "start" /\ runs >= 2) => bytecode' = bytecode]_vars

\* the offset of a step from which an opcode is fetched
AtFetch ==
    \/ phase = "fetch"
    \/ phase = "loop" /\ ret = Continue

\* C8: during the first run the instruction pointer stays inside the padded
\* buffer; an opcode fetched at or past the end of the raw program is a STOP
\* of the padding and its handler returns Stop; 60ff with gas for its block
\* ends with Stop and 0xff on top of the stack.
C8_PointerInsidePadding ==
    /\ [](runs = 1 => /\ ip \in 0..Len(bytecode)
                      /\ AtFetch => ip < Len(bytecode))
    /\ [][(runs = 1 /\ IsDispatch /\ ip >= orig_len) =>
            At(bytecode, ip) = STOP /\ ret' = Stop]_vars
    /\ []((phase = "done" /\ runs = 1 /\ inspect # "any"
            /\ raw = Pad(Prog60ff) /\ gas_limit >= 3) =>
            result = Stop /\ Top(stack) = 255)

\* C8 witness: a program whose final PUSH2 lacks its immediate bytes has run
\* into the padding and stopped there
C8_Witness ==
    /\ phase = "done"
    /\ runs = 1
    /\ orig_len >= 1
    /\ At(raw, orig_len - 1) = PUSH2
    /\ ip = orig_len + 3
    /\ result = Stop
    /\ Len(stack) >= 1

\* the jump target that the bytes after offset i of b spell
TargetAt(b, i) == At(b, i + 1) * 256 + At(b, i + 2)

\* C9: analyse writes only PUSH2_JUMPI, and only over a PUSH2 that is
\* followed three bytes later by JUMPI and whose immediate is a valid jump
\* destination; length, jumpdest bitmap and gas-block table stay as they are.
C9_AnalyseFrame ==
    [][phase = "start" =>
        /\ Len(bytecode') = Len(bytecode)
        /\ jumptable' = jumptable
        /\ gas_blocks' = gas_blocks
        /\ \A i \in 0..(Len(bytecode) - 1) :
            At(bytecode', i) # At(bytecode, i) =>
                /\ At(bytecode', i) = PUSH2_JUMPI
                /\ At(bytecode, i) = PUSH2
                /\ i + 3 < Len(bytecode)
                /\ At(bytecode, i + 3) = JUMPI
                /\ TargetAt(bytecode, i) < Len(raw)
                /\ At(raw, TargetAt(bytecode, i)) = JUMPDEST
                /\ TargetAt(bytecode, i) \in InstrStarts(raw)]_vars

\* C9 witness: the first analysis has rewritten a byte
C9_Witness ==
    /\ phase = "first_gas"
    /\ runs = 1
    /\ bytecode # raw

\* C10: every offset analyse rewrites is the first byte of an instruction of
\* the program decoded from offset 0.
C10_NoImmediateRewritten ==
    [][(phase = "start" /\ runs = 1) =>
        \A i \in 0..(Len(bytecode) - 1) :
            At(bytecode', i) # At(bytecode, i) =>
                i \in InstrStarts(bytecode)]_vars

\* C11: with an inspector attached the calls come in the order step, fetch and
\* dispatch, step_end: step is called from the head of the loop only, an
\* opcode is dispatched only after its step call, step_end is called only
\* after a dispatch and with the handler's result still in ret, whether that
\* result is Continue or terminal; so step_ends never exceeds dispatched,
\* dispatched never exceeds steps, and when run has returned step_ends equals
\* dispatched.  With no inspector neither hook is ever called.
C11_HookOrder ==
    /\ [][/\ IsStepCall =>
               /\ inspect # "none"
               /\ steps = dispatched /\ step_ends = dispatched
               /\ UNCHANGED <<dispatched, step_ends>>
          /\ (IsDispatch /\ inspect # "none") =>
               /\ steps = dispatched + 1 /\ step_ends = dispatched
               /\ phase' = "step_end"
               /\ UNCHANGED <<steps, step_ends>>
          /\ IsStepEndCall =>
               /\ inspect # "none"
               /\ steps = dispatched /\ step_ends = dispatched - 1
               /\ ret' = ret
               /\ UNCHANGED <<steps, dispatched, ip, stack, gas>>]_vars
    /\ [](/\ inspect # "none" =>
                /\ step_ends <= dispatched /\ dispatched <= steps
                /\ steps <= step_ends + 1
                /\ phase = "done" => step_ends = dispatched
          /\ inspect = "none" => steps = 0 /\ step_ends = 0)

\* C11 witness: under an inspector run returned the terminal kind of its
\* third opcode, after three step calls and three step_end calls
C11_Witness ==
    /\ phase = "done"
    /\ inspect = "continue"
    /\ steps = 3
    /\ dispatched = 3
    /\ step_ends = 3
    /\ result = ret
    /\ ret # Continue

\* C12: the step hook leaves pointer, bytecode, stack and gas alone, so what
\* it reads as program_counter() and current_opcode() is the offset and the
\* byte of the opcode dispatched next; the handler of that opcode runs with
\* the pointer one past that offset: PUSH1 pushes the byte at offset + 1 and
\* leaves the pointer at offset + 2, JUMPDEST leaves it at offset + 1.
C12_StepSeesNextOpcode ==
    [][/\ IsStepCall => UNCHANGED <<ip, bytecode, stack, gas>>
       /\ (IsDispatch /\ ip < Len(bytecode)) =>
            LET s == eval(current_opcode,
                          [ip |-> program_counter + 1, stack |-> stack,
                           gas |-> gas, ret |-> ret],
                          bytecode, jumptable, gas_blocks)
            IN  ip' = s.ip /\ stack' = s.stack /\ gas' = s.gas /\ ret' = s.ret
       /\ (IsDispatch /\ ip < Len(bytecode) /\ current_opcode = PUSH1) =>
            /\ ip' = program_counter + 2
            /\ stack' = Append(stack, At(bytecode, program_counter + 1))
       /\ (IsDispatch /\ ip < Len(bytecode) /\ current_opcode = JUMPDEST) =>
            ip' = program_counter + 1]_vars

\* C12 witness: under an inspector the second PUSH1 of 6001600201, which the
\* step hook saw at offset 2, has been dispatched
C12_Witness ==
    /\ phase = "step_end"
    /\ raw = Pad(ProgAdd)
    /\ steps = 2
    /\ dispatched = 2
    /\ program_counter = 4
    /\ stack = <<1, 2>>

\* the interpreter as the record the handlers work on
Interp == [ip |-> ip, stack |-> stack, gas |-> gas, ret |-> ret]

\* the offsets add_next_gas_block is tried at: every offset of the program and
\* of its first padding byte before the loop, offset 0 and the pointer's
\* offset afterwards
BlockOffsets ==
    IF phase = "first_gas" THEN 0..orig_len ELSE {0, ip} \cap 0..orig_len

\* C13: add_next_gas_block(pc) is all or nothing.  In every state and for
\* every offset pc of BlockOffsets: if the block's gas exceeds gas.remaining it
\* returns OutOfGas with remaining as it was, otherwise Continue with
\* remaining lowered by exactly the block's gas; pointer and stack are never
\* changed.  A JUMP to a valid destination, which calls it, ends OutOfGas
\* with remaining as it was or goes on at the destination with the
\* destination block paid.
C13_GasBlockAllOrNothing ==
    /\ [](\A pc \in BlockOffsets :
            LET cost == gas_block(gas_blocks, pc)
                t == add_next_gas_block(Interp, gas_blocks, pc)
            IN  /\ t.ip = ip /\ t.stack = stack
                /\ IF cost > gas
                   THEN t.ret = OutOfGas /\ t.gas = gas
                   ELSE t.ret = Continue /\ t.gas = gas - cost)
    /\ [][(/\ IsDispatch
           /\ ip < Len(bytecode)
           /\ current_opcode = JUMP
           /\ Len(stack) >= 1
           /\ is_valid_jump(jumptable, Top(stack))) =>
            LET cost == gas_block(gas_blocks, Top(stack))
            IN  /\ stack' = Pop(stack, 1)
                /\ ip' = Top(stack)
                /\ IF cost > gas
                   THEN ret' = OutOfGas /\ gas' = gas
                   ELSE ret' = Continue /\ gas' = gas - cost]_vars

\* C13 witness: 5b600056 with 13 gas has paid its first block, gone once
\* round and failed to pay for the block at the jump's destination, the one
\* gas left over still in the meter
C13_Witness ==
    /\ phase = "done"
    /\ runs = 1
    /\ raw = Pad(ProgLoop)
    /\ gas_limit = 13
    /\ dispatched = 3
    /\ result = OutOfGas
    /\ gas = 1

\* a gas-block table that charges nothing
NoBlocks(b) == [k \in 1..Len(b) |-> 0]

\* the loop of run with the static gas of every opcode recorded as the opcode
\* is dispatched and nothing recorded per block
RECURSIVE per_opcode_loop(_, _, _)
per_opcode_loop(s, b, jt) ==
    IF s.ret # Continue THEN s
    ELSE LET opcode == Byte(b, s.ip)
             r == record_cost(s.gas, OpGas(opcode))
         IN  IF ~r.ok THEN [s EXCEPT !.ret = OutOfGas]
             ELSE per_opcode_loop(
                      eval(opcode,
                           [s EXCEPT !.ip = @ + 1, !.gas = r.remaining],
                           b, jt, NoBlocks(b)),
                      b, jt)

\* a fresh interpreter run on buffer b with per-opcode charging
run_per_opcode(b, jt, limit) ==
    per_opcode_loop([ip |-> 0, stack |-> <<>>, gas |-> limit,
                     ret |-> Continue], b, jt)

\* the opcodes whose handlers record the gas of a block
BlockChargers == {JUMP, JUMPI, PUSH2_JUMPI}

LoopBodyGas == OpGas(JUMPDEST) + OpGas(PUSH1) + OpGas(JUMP)

\* C15: for every gas limit G a first run of 5b600056 that no hook ends
\* returns OutOfGas after exactly G \div 12 rounds of the loop body (three
\* opcodes each) with G % 12 gas remaining; with G < 12 no opcode is
\* dispatched and no hook is called.
C15_LoopIterations ==
    (/\ phase = "done"
     /\ runs = 1
     /\ inspect # "any"
     /\ raw = Pad(ProgLoop)) =>
        /\ LoopBodyGas = 12
        /\ result = OutOfGas
        /\ dispatched = 3 * (gas_limit \div 12)
        /\ gas = gas_limit % 12
        /\ gas_limit < 12 => dispatched = 0 /\ steps = 0 /\ ip = 0

\* C15 witness: 5b600056 with 24 gas, under an inspector that never ends the
\* run, has gone exactly twice round the loop and returned OutOfGas
C15_Witness ==
    /\ phase = "done"
    /\ runs = 1
    /\ inspect = "continue"
    /\ raw = Pad(ProgLoop)
    /\ gas_limit = 24
    /\ dispatched = 6
    /\ step_ends = 6
    /\ gas = 0
    /\ result = OutOfGas

\* C17: CustomPrintTracer is transparent.  Its hooks answer Continue whatever
\* the gas inspector answered, and a first run with the tracer attached
\* returns, with the Return, the stack, the gas and the memory of the same
\* run with no inspector.
C17_TracerTransparent ==
    /\ HookReturns("tracer") = {Continue}
    /\ \A inner \in Return : initialize_interp(inner) = Continue
    /\ (inspect = "tracer" /\ runs = 1) =>
        /\ phase # "panic"
        /\ phase = "done" =>
            LET r == run_unanalysed(bytecode, jumptable, gas_blocks,
                                    gas_limit)
            IN  /\ result = r.ret
                /\ stack = r.stack
                /\ gas = r.gas
                /\ memory = <<>>

\* a call of return_value has just returned
IsReturnValueCall == ~output.called /\ output'.called

\* C16: return_value returns the empty byte string when return_range.start
\* is usize::MAX and when return_range is the default 0..0; otherwise it
\* returns the end - start bytes of memory from offset start on; it leaves
\* memory, return_range and the rest of the interpreter as they were.
C16_ReturnValue ==
    [][IsReturnValueCall =>
        /\ UNCHANGED <<memory, return_range, bytecode, ip, stack, gas, ret,
                       result, phase>>
        /\ (return_range.start = USIZE_MAX \/ return_range = DefaultRange) =>
                output'.bytes = <<>>
        /\ return_range.start # USIZE_MAX =>
            /\ Len(output'.bytes) = return_range.end - return_range.start
            /\ \A k \in 0..(return_range.end - return_range.start - 1) :
                    At(output'.bytes, k) =
                        At(memory, return_range.start + k)]_vars

\* C16 witness: return_value has returned the three bytes at offsets 30, 31
\* and 32 of a memory of two words
C16_Witness ==
    /\ output.called
    /\ Len(memory) = 2 * WordBytes
    /\ return_range = [start |-> 30, end |-> 33]
    /\ output.bytes = <<At(memory, 30), At(memory, 31), At(memory, 32)>>
    /\ At(memory, 30) # At(memory, 0)

\* a sub-call hook of the tracer has just returned
IsHookReturn == hook_out = NoHook /\ hook_out' # NoHook

\* C18: the tracer's call and create return Continue and pass nothing to the
\* gas inspector's end hooks; call_end returns the ret, remaining gas and
\* output it was given, create_end the ret, address, remaining gas and output
\* it was given, each after passing exactly those once to the gas inspector
\* and whatever the gas inspector answered.
C18_TracerKeepsSubCalls ==
    [][IsHookReturn =>
        /\ hook_in' = hook_in
        /\ hook_out'.kind = hook_in.kind
        /\ hook_in.kind \in {"call", "create"} =>
            /\ hook_out'.val[1] = Continue
            /\ forwarded' = forwarded
        /\ hook_in.kind = "call_end" =>
            /\ hook_out'.val = <<hook_in.ret, hook_in.gas, hook_in.out>>
            /\ forwarded' = <<<<hook_in.gas, hook_in.ret, hook_in.out>>>>
        /\ hook_in.kind = "create_end" =>
            /\ hook_out'.val =
                    <<hook_in.ret, hook_in.address, hook_in.gas, hook_in.out>>
            /\ forwarded' = <<hook_out'.val>>]_vars

\* C18 witness: create_end was handed a Revert with an address, gas and one
\* byte of output, and has handed all four back
C18_Witness ==
    /\ hook_in.kind = "create_end"
    /\ hook_out # NoHook
    /\ hook_out.val = <<Revert, "0xa1", MaxHookGas, <<255>>>>
    /\ Len(forwarded) = 1

====
